---- MODULE Spec2Model ----
(***************************************************************************)
(* A model of the RINEX metadata parser: parseRINEXFilename and the RINEX  *)
(* constructor with its header classes (src/rinex_parser.py), and the      *)
(* schema-driven RINEXHeader of src/src/rinex_header.py.                    *)
(*                                                                         *)
(* A Python string is a sequence of one-character strings, so that every   *)
(* slice, split, regular expression and conversion of the code is computed *)
(* on the characters.                                                      *)
(***************************************************************************)
EXTENDS Integers, Sequences, FiniteSets, TLC

VARIABLES filename, data, entry, pc, exc, rec, header, observations, hdr

vars == <<filename, data, entry, pc, exc, rec, header, observations, hdr>>

(***************************************************************************)
(* Characters and the string methods the code uses.                        *)
(***************************************************************************)
LowerAlpha == <<"a","b","c","d","e","f","g","h","i","j","k","l","m","n","o","p","q","r","s","t","u","v","w","x","y","z">>

UpperAlpha == <<"A","B","C","D","E","F","G","H","I","J","K","L","M","N","O","P","Q","R","S","T","U","V","W","X","Y","Z">>

DigitChars == <<"0","1","2","3","4","5","6","7","8","9">>

Range(s) == {s[i] : i \in DOMAIN s}

LowerSet == Range(LowerAlpha)

UpperSet == Range(UpperAlpha)

DigitSet == Range(DigitChars)

\* The position of character c in the sequence s (c occurs in s).
IndexIn(c, s) == CHOOSE i \in DOMAIN s : s[i] = c

\* ord(c) for an ASCII letter or digit.
Ord(c) ==
    IF c \in LowerSet THEN 96 + IndexIn(c, LowerAlpha)
    ELSE IF c \in UpperSet THEN 64 + IndexIn(c, UpperAlpha)
    ELSE 47 + IndexIn(c, DigitChars)

UpperChar(c) == IF c \in LowerSet THEN UpperAlpha[IndexIn(c, LowerAlpha)] ELSE c

LowerChar(c) == IF c \in UpperSet THEN LowerAlpha[IndexIn(c, UpperAlpha)] ELSE c

\* str.upper() and str.lower()
StrUpper(s) == [i \in 1..Len(s) |-> UpperChar(s[i])]

StrLower(s) == [i \in 1..Len(s) |-> LowerChar(s[i])]

\* The Python slice s[a:b] for 0 <= a, 0 <= b: it never fails, it clips.
Slice(s, a, b) ==
    LET hi == IF b > Len(s) THEN Len(s) ELSE b
    IN  IF a >= hi THEN <<>> ELSE SubSeq(s, a + 1, hi)

\* int(s) of a non-empty string of ASCII digits.
RECURSIVE IntOf(_)
IntOf(s) ==
    IF Len(s) = 0 THEN 0
    ELSE 10 * IntOf(SubSeq(s, 1, Len(s) - 1)) + (IndexIn(s[Len(s)], DigitChars) - 1)

\* str.split(sep) for a one-character separator: the pieces between the
\* occurrences of sep, empty pieces included.
SepPositions(s, sep) == {i \in 1..Len(s) : s[i] = sep}

Least(S) == IF S = {} THEN 0 ELSE CHOOSE i \in S : \A j \in S : i <= j

Greatest(S) == IF S = {} THEN 0 ELSE CHOOSE i \in S : \A j \in S : j <= i

\* The pieces from position `from` on; p is the first separator there, 0
\* when there is none.
RECURSIVE SplitFrom(_, _, _)
SplitNext(s, sep, from, p) ==
    IF p = 0 THEN <<SubSeq(s, from, Len(s))>>
    ELSE <<SubSeq(s, from, p - 1)>> \o SplitFrom(s, sep, p + 1)

SplitFrom(s, sep, from) ==
    SplitNext(s, sep, from, Least({i \in from..Len(s) : s[i] = sep}))

Split(s, sep) == SplitFrom(s, sep, 1)

\* os.path.splitext of a name with no directory part: the extension starts
\* at the last dot, unless that dot only follows dots from the start.
SplitExt(s) ==
    LET dots == SepPositions(s, ".")
    IN  IF dots = {} THEN <<s, <<>>>>
        ELSE LET p == CHOOSE i \in dots : \A j \in dots : j <= i
             IN  IF \A i \in 1..(p - 1) : s[i] = "." THEN <<s, <<>>>>
                 ELSE <<Slice(s, 0, p - 1), Slice(s, p - 1, Len(s))>>

(***************************************************************************)
(* The two filename patterns, matched by re.match under re.IGNORECASE.     *)
(* In Python `$` matches at the end of the string and also just before a   *)
(* newline that ends the string.                                           *)
(***************************************************************************)
IsDigit(c) == c \in DigitSet

IsAlpha(c) == c \in LowerSet \cup UpperSet

\* [a-z\d] under IGNORECASE
IsAlnum(c) == IsAlpha(c) \/ IsDigit(c)

\* one character of a class given in lower case, under IGNORECASE
InClass(c, class) == LowerChar(c) \in class

\* `$` after the first k characters of s
AtEnd(s, k) == k = Len(s) \/ (k = Len(s) - 1 /\ s[Len(s)] = "\n")

\* [megr] : the class with the QZSS letter left out
LongSystemClassNoJ == {"m", "e", "g", "r"}

\* [megjr] : the satellite-system letter of a long name
LongSystemClass == {"m", "e", "g", "j", "r"}

\* [mon] : the data-type letter of a long name
LongTypeClass == {"m", "o", "n"}

\* [cr] : the first letter of a long name's extension (crx / rnx)
LongArchiveClass == {"c", "r"}

\* [a-x\d] : the hour character of a short name
IsHourChar(c) == IsDigit(c) \/ (IsAlpha(c) /\ IndexIn(LowerChar(c), LowerAlpha) <= 24)

\* [gndmo] : the data-type letter of a short name
ShortTypeClass == {"g", "n", "d", "m", "o"}

\* The tail of the long pattern, [megjr][mon]\.[cr][rn]x$, from position k.
LongTail(s, k) ==
    /\ Len(s) >= k + 5
    /\ InClass(s[k], LongSystemClass)
    /\ InClass(s[k + 1], LongTypeClass)
    /\ s[k + 2] = "."
    /\ InClass(s[k + 3], LongArchiveClass)
    /\ InClass(s[k + 4], {"r", "n"})
    /\ InClass(s[k + 5], {"x"})
    /\ AtEnd(s, k + 5)

\* ^[a-z\d]{9}_r_\d{11}_\d\d[dhm]_(\d\d[a-z]_)?[megjr][mon]\.[cr][rn]x$
rinex_longname_pattern(s) ==
    /\ Len(s) >= 28
    /\ \A i \in 1..9 : IsAlnum(s[i])
    /\ s[10] = "_" /\ InClass(s[11], {"r"}) /\ s[12] = "_"
    /\ \A i \in 13..23 : IsDigit(s[i])
    /\ s[24] = "_"
    /\ IsDigit(s[25]) /\ IsDigit(s[26]) /\ InClass(s[27], {"d", "h", "m"})
    /\ s[28] = "_"
    /\ \/ /\ Len(s) >= 32
          /\ IsDigit(s[29]) /\ IsDigit(s[30]) /\ IsAlpha(s[31]) /\ s[32] = "_"
          /\ LongTail(s, 33)
       \/ LongTail(s, 29)

\* The tail of the short pattern without its `$`
ShortTailUnanchored(s, k) ==
    /\ Len(s) >= k + 3
    /\ s[k] = "."
    /\ IsDigit(s[k + 1]) /\ IsDigit(s[k + 2])
    /\ InClass(s[k + 3], ShortTypeClass)

\* The tail of the short pattern, \.\d\d[gndmo]$, from position k.
ShortTail(s, k) ==
    /\ Len(s) >= k + 3
    /\ s[k] = "."
    /\ IsDigit(s[k + 1]) /\ IsDigit(s[k + 2])
    /\ InClass(s[k + 3], ShortTypeClass)
    /\ AtEnd(s, k + 3)

\* ^[a-z\d]{4}\d{3}[a-x\d](\d\d)?\.\d\d[gndmo]$
rinex_shortname_pattern(s) ==
    /\ Len(s) >= 8
    /\ \A i \in 1..4 : IsAlnum(s[i])
    /\ \A i \in 5..7 : IsDigit(s[i])
    /\ IsHourChar(s[8])
    /\ \/ /\ Len(s) >= 10
          /\ IsDigit(s[9]) /\ IsDigit(s[10])
          /\ ShortTail(s, 11)
       \/ ShortTail(s, 9)

(***************************************************************************)
(* datetime.datetime.strptime.  A datetime is kept as its year, its day of *)
(* the year, its hour and its minute.  A day of the year given by %j is    *)
(* taken as an offset from 1 January, so day 366 of a year of 365 days is  *)
(* 1 January of the next year.                                             *)
(***************************************************************************)
NoTime == [year |-> 0, yday |-> 0, hour |-> 0, minute |-> 0]

IsLeap(y) == (y % 4 = 0 /\ y % 100 # 0) \/ y % 400 = 0

DaysInYear(y) == IF IsLeap(y) THEN 366 ELSE 365

\* date.fromordinal((julian - 1) + date(year, 1, 1).toordinal())
FromJulian(y, j) ==
    IF j <= DaysInYear(y) THEN [year |-> y, yday |-> j]
    ELSE [year |-> y + 1, yday |-> j - DaysInYear(y)]

\* The fields strptime accepts: %j 001..366, %H 00..23, %M 00..59, and a
\* date within datetime's years 1..9999.
TimeFieldsOk(y, j, h, m) ==
    /\ j >= 1 /\ j <= 366
    /\ h <= 23
    /\ m <= 59
    /\ y >= 1
    /\ FromJulian(y, j).year <= 9999

MakeTime(y, j, h, m) ==
    [year |-> FromJulian(y, j).year, yday |-> FromJulian(y, j).yday,
     hour |-> h, minute |-> m]

\* strptime(tok, '%Y%j%H%M') of a token of 11 digits: with 4 + 3 + 2 + 2
\* digits to consume, every directive takes its full width or the match
\* leaves unconverted data.  [ok |-> FALSE] stands for ValueError.
StrptimeLong(tok) ==
    LET y == IntOf(Slice(tok, 0, 4))
        j == IntOf(Slice(tok, 4, 7))
        h == IntOf(Slice(tok, 7, 9))
        m == IntOf(Slice(tok, 9, 11))
    IN  IF TimeFieldsOk(y, j, h, m)
        THEN [ok |-> TRUE, time |-> MakeTime(y, j, h, m)]
        ELSE [ok |-> FALSE, time |-> NoTime]

\* strptime('{}-{}-{}-{}'.format(year, day, hour, minute), '%y-%j-%H-%M'):
\* the numbers are written without leading zeros, and %y wants two digits,
\* so a year below 10 does not match.  %y: 69..99 are 19xx, 0..68 are 20xx.
CenturyPivot == 69

StrptimeShort(year, day, hour, minute) ==
    LET y == IF year >= CenturyPivot THEN 1900 + year ELSE 2000 + year
    IN  IF year >= 10 /\ year <= 99 /\ TimeFieldsOk(y, day, hour, minute)
        THEN [ok |-> TRUE, time |-> MakeTime(y, day, hour, minute)]
        ELSE [ok |-> FALSE, time |-> NoTime]

(***************************************************************************)
(* parseRINEXFilename.  The result is the tuple the function returns, or   *)
(* the exception it raises: kind is "record", "InvalidFilename" or         *)
(* "ValueError".                                                           *)
(***************************************************************************)
NoText == <<>>

Raise(kind, arg) ==
    [kind |-> kind, arg |-> arg, marker_name |-> NoText, data_type |-> NoText,
     file_type |-> "", start_time |-> NoTime]

Return(marker, dtype, ftype, time) ==
    [kind |-> "record", arg |-> NoText, marker_name |-> marker,
     data_type |-> dtype, file_type |-> ftype, start_time |-> time]

InvalidFilenameText == <<"F","i","l","e","n","a","m","e"," ","d","o","e","s"," ","n","o","t"," ","m","a","t","c","h"," ","R","I","N","E","X"," ","f","o","r","m","a","t","t","i","n","g",":"," ">>

\* file_types = {'D': 'daily', 'H': 'hourly', 'M': 'highrate'}
file_types(c) ==
    IF c = "D" THEN "daily" ELSE IF c = "H" THEN "hourly" ELSE "highrate"

ParseLongName(fn) ==
    LET root == SplitExt(fn)[1]
        split_name == Split(root, "_")
        last == split_name[Len(split_name)]
        marker_name == StrUpper(Slice(root, 0, 4))
        data_type == StrUpper(<<last[Len(last)]>>)
        file_type == file_types(split_name[4][Len(split_name[4])])
        t == StrptimeLong(split_name[3])
    IN  IF t.ok THEN Return(marker_name, data_type, file_type, t.time)
        ELSE Raise("ValueError", split_name[3])

\* The data type of a short name: its last character, G and D remapped.
ShortDataType(fn) ==
    LET c == fn[Len(fn)]
    IN  IF c = "G" THEN <<"N">> ELSE IF c = "D" THEN <<"O">> ELSE <<c>>

ParseShortName(fn) ==
    LET marker_name == StrUpper(Slice(fn, 0, 4))
        data_type == ShortDataType(fn)
        check_hour == StrLower(Slice(fn, 7, 9))
        daily == IsDigit(check_hour[1])
        hourly == ~daily /\ check_hour[2] = "."
        hour == IF daily THEN 0 ELSE Ord(check_hour[1]) - 97
        minute == IF daily \/ hourly THEN 0 ELSE IntOf(Slice(fn, 8, 10))
        file_type == IF daily THEN "daily" ELSE IF hourly THEN "hourly" ELSE "highrate"
        day == IntOf(Slice(fn, 4, 7))
        parts == Split(fn, ".")
        year == IntOf(Slice(parts[Len(parts)], 0, 2))
        t == StrptimeShort(year, day, hour, minute)
    IN  IF t.ok THEN Return(marker_name, data_type, file_type, t.time)
        ELSE Raise("ValueError", NoText)

parseRINEXFilename(name) ==
    LET fn == StrUpper(name)
    IN  IF rinex_longname_pattern(fn) THEN ParseLongName(fn)
        ELSE IF rinex_shortname_pattern(fn) THEN ParseShortName(fn)
        ELSE Raise("InvalidFilename", InvalidFilenameText \o fn)

(***************************************************************************)
(* The state machine.  entry is the function or constructor the one caller *)
(* has called ("none" before the call) and pc its position: "idle" before  *)
(* a call; "classified" after a direct call of parseRINEXFilename; within  *)
(* the RINEX constructor "named", "split", "base", "marker"; "done" when   *)
(* a RINEX object was built, "parsed" when a RINEXHeader of rinex_header   *)
(* was, and "raised" when an exception left the call.                      *)
(* exc is the exception raised (kind "none" when there is none), rec the   *)
(* tuple parseRINEXFilename returned, header and observations the two      *)
(* parts the constructor cuts data into, hdr the header object.            *)
(***************************************************************************)
NoExc == [kind |-> "none", arg |-> NoText]

NoRec == [marker_name |-> NoText, data_type |-> NoText, file_type |-> "", start_time |-> NoTime]

RecOf(r) ==
    [marker_name |-> r.marker_name, data_type |-> r.data_type,
     file_type |-> r.file_type, start_time |-> r.start_time]

ExcOf(r) == IF r.kind = "record" THEN NoExc ELSE [kind |-> r.kind, arg |-> r.arg]

NoHdr == [class |-> "none"]

\* A direct call parseRINEXFilename(filename).
CallParseRINEXFilename ==
    /\ pc = "idle"
    /\ LET r == parseRINEXFilename(filename)
       IN  /\ rec' = (IF r.kind = "record" THEN RecOf(r) ELSE NoRec)
           /\ exc' = ExcOf(r)
    /\ pc' = "classified"
    /\ entry' = "parseRINEXFilename"
    /\ UNCHANGED <<filename, data, header, observations, hdr>>

(***************************************************************************)
(* Filenames given to the classifier: the names of the documentation, and  *)
(* families that vary the date digits, the letters, the case and the end.  *)
(***************************************************************************)
LongName(marker, date, period, rate, sys, typ, ext) ==
    marker \o <<"_", "R", "_">> \o date \o <<"_">> \o period \o <<"_">> \o rate
        \o <<sys, typ, ".">> \o ext

ShortName(marker, day, hour, minute, year, typ, tail) ==
    marker \o day \o <<hour>> \o minute \o <<".">> \o year \o <<typ>> \o tail

Years4 == {<<"2","0","1","5">>, <<"2","0","1","6">>, <<"0","0","0","0">>, <<"9","9","9","9">>}

Days3 == {<<"0","0","0">>, <<"0","0","1">>, <<"1","2","8">>, <<"3","6","5">>, <<"3","6","6">>, <<"3","6","7">>}

Hours2 == {<<"0","0">>, <<"2","3">>, <<"2","4">>}

Minutes2 == {<<"0","0">>, <<"5","9">>, <<"6","0">>}

LongDateNames ==
    {LongName(<<"A","L","I","C","0","0","A","U","S">>, y \o d \o h \o m, <<"0","1","D">>, <<>>, "M", "O", <<"r","n","x">>) :
        y \in Years4, d \in Days3, h \in Hours2, m \in Minutes2}

LongLetterNames ==
    {LongName(<<"a","l","i","c","0","0","a","u","s">>, <<"2","0","1","6","1","2","8","0","0","0","0">>, <<"0", "1", u>>, r, s, t, <<a, n, "x">>) :
        u \in {"D", "H", "M", "S"}, r \in {<<>>, <<"3","0","S","_">>},
        s \in {"M", "E", "G", "J", "R", "C", "1"}, t \in {"M", "O", "N", "X"},
        a \in {"r", "c", "g"}, n \in {"n", "r"}}

ShortDateNames ==
    {ShortName(<<"b","u","l","a">>, d, h, m, y, "d", <<>>) :
        d \in {<<"0","0","0">>, <<"0","0","1">>, <<"0","2","8">>, <<"1","2","8">>, <<"3","6","6">>, <<"3","6","7">>}, h \in {"0", "9", "a", "g", "x", "V", "y"},
        m \in {<<>>, <<"0","0">>, <<"1","5">>, <<"6","0">>}, y \in {<<"1","6">>, <<"1","5">>, <<"0","5">>, <<"6","9">>, <<"6","8">>}}

ShortLetterNames ==
    {ShortName(k, <<"1","2","8">>, h, m, <<"1","6">>, t, e) :
        k \in {<<"a","l","b","y">>, <<"A","L","B","Y">>, <<"a","1","b","!">>}, h \in {"0", "g"}, m \in {<<>>, <<"0","0">>},
        t \in {"g", "n", "d", "m", "o", "N", "D", "x"},
        e \in {<<>>, <<"\n">>, <<"z">>}}

DocumentedNames ==
    {<<"A","L","I","C","0","0","A","U","S","_","R","_","2","0","1","6","1","2","8","0","0","0","0","_","0","1","D","_","3","0","S","_","M","O",".","r","n","x">>,
     <<"E","D","S","V","0","0","A","U","S","_","R","_","2","0","1","6","1","2","8","0","0","0","0","_","0","1","D","_","E","N",".","r","n","x">>,
     <<"b","u","l","a","1","2","8","0",".","1","6","d">>,
     <<"a","l","b","y","0","2","8","g",".","1","6","n">>,
     <<"A","L","B","Y","1","2","4","V","0","0",".","1","6","d">>,
     <<"n","o","t","_","a","_","r","i","n","e","x","_","n","a","m","e",".","t","x","t">>,
     <<"A","L","I","C","0","0","A","U","S","_","R","_","2","0","1","6","1","2","8","0","0","0","0","_","0","1","D","_","3","0","S","_","M","O",".","r","n","x","\n">>,
     <<"A","L","I","C","0","0","A","U","S","_","R","_","2","0","1","6","1","2","8","0","0","0","0","_","0","1","D","_","3","0","S","_","M","O",".","r","n","x","x">>,
     <<>>}

NameInputs ==
    LongDateNames \cup LongLetterNames \cup ShortDateNames \cup ShortLetterNames
        \cup DocumentedNames

InitName ==
    /\ filename \in NameInputs
    /\ data = <<>>
    /\ entry = "none"
    /\ pc = "idle"
    /\ exc = NoExc
    /\ rec = NoRec
    /\ header = NoText
    /\ observations = NoText
    /\ hdr = NoHdr

NextName == CallParseRINEXFilename

SpecName == InitName /\ [][NextName]_vars

(***************************************************************************)
(* The filename grammars as the specification writes them, and the fields  *)
(* of a name read off by position.  They are written apart from the code's *)
(* patterns above.                                                         *)
(***************************************************************************)
\* The long grammar with the letters allowed before the data-type letter
\* (sys) and at the head of the extension (arch), compared without case:
\* ^[A-Z0-9]{9}_R_\d{11}_\d{2}[DHM]_(\d{2}[A-Z]_)?<sys>[MON]\.<arch>[RN]X$
GrammarLongEnd(s, k, sys, arch) ==
    /\ AtEnd(s, k + 5)
    /\ UpperChar(s[k]) \in sys
    /\ UpperChar(s[k + 1]) \in {"M", "O", "N"}
    /\ s[k + 2] = "."
    /\ UpperChar(s[k + 3]) \in arch
    /\ UpperChar(s[k + 4]) \in {"R", "N"}
    /\ UpperChar(s[k + 5]) = "X"

GrammarLong(s, sys, arch) ==
    \E rate \in {0, 4} :
        /\ Len(s) >= 34 + rate
        /\ \A i \in 1..9 : UpperChar(s[i]) \in UpperSet \cup DigitSet
        /\ <<s[10], UpperChar(s[11]), s[12]>> = <<"_", "R", "_">>
        /\ \A i \in 13..23 : s[i] \in DigitSet
        /\ s[24] = "_" /\ s[25] \in DigitSet /\ s[26] \in DigitSet
        /\ UpperChar(s[27]) \in {"D", "H", "M"}
        /\ s[28] = "_"
        /\ rate = 4 => /\ s[29] \in DigitSet /\ s[30] \in DigitSet
                       /\ UpperChar(s[31]) \in UpperSet /\ s[32] = "_"
        /\ GrammarLongEnd(s, 29 + rate, sys, arch)

SpecLongGrammar(s) == GrammarLong(s, UpperSet, UpperSet)

\* ^[A-Z0-9]{4}\d{3}[A-X0-9](\d{2})?\.\d{2}[GNDMO]$
SpecShortGrammar(s) ==
    \E mins \in {0, 2} :
        /\ Len(s) >= 12 + mins
        /\ AtEnd(s, 12 + mins)
        /\ \A i \in 1..4 : UpperChar(s[i]) \in UpperSet \cup DigitSet
        /\ \A i \in 5..7 : s[i] \in DigitSet
        /\ UpperChar(s[8]) \in (UpperSet \ {"Y", "Z"}) \cup DigitSet
        /\ \A i \in 9..(8 + mins) : s[i] \in DigitSet
        /\ s[9 + mins] = "."
        /\ s[10 + mins] \in DigitSet /\ s[11 + mins] \in DigitSet
        /\ UpperChar(s[12 + mins]) \in {"G", "N", "D", "M", "O"}

\* The position of the dot of a long name, and of a short name.
LongDot(s) == IF s[29] \in DigitSet THEN 35 ELSE 31

ShortDot(s) == IF s[9] = "." THEN 9 ELSE 11

Classified == pc = "classified"

Returned == Classified /\ exc.kind = "none"

\* C1: for every name that matches the long grammar and for which a record
\* is returned, marker_name is the first 4 characters upper-cased, data_type
\* the letter before the extension (M, O or N), file_type daily / hourly /
\* highrate for the duration unit D / H / M, and start_time the year, day of
\* the year, hour and minute written in the 11-digit token.
C1_LongNameRecord ==
    (Returned /\ SpecLongGrammar(filename)) =>
        /\ rec.marker_name = StrUpper(SubSeq(filename, 1, 4))
        /\ rec.data_type = <<UpperChar(filename[LongDot(filename) - 1])>>
        /\ rec.data_type \in {<<"M">>, <<"O">>, <<"N">>}
        /\ rec.file_type = (CASE UpperChar(filename[27]) = "D" -> "daily"
                              [] UpperChar(filename[27]) = "H" -> "hourly"
                              [] OTHER -> "highrate")
        /\ rec.start_time = [year |-> IntOf(SubSeq(filename, 13, 16)),
                             yday |-> IntOf(SubSeq(filename, 17, 19)),
                             hour |-> IntOf(SubSeq(filename, 20, 21)),
                             minute |-> IntOf(SubSeq(filename, 22, 23))]

\* The long name of day 366 of 2015 has been classified, and a record returned.
C1_Day366Classified ==
    /\ Returned
    /\ filename = <<"A","L","I","C","0","0","A","U","S","_","R","_","2","0","1","5","3","6","6","0","0","0","0","_","0","1","D","_","M","O",".","r","n","x">>
    /\ rec.start_time.year = 2016 /\ rec.start_time.yday = 1

\* C2: for every name that matches the short grammar and for which a record
\* is returned: marker_name is the first 4 characters upper-cased; data_type
\* is N for a final letter G or N, O for D or O, M for M; a digit as 8th
\* character gives daily with hour 0 and minute 0; a letter gives the hour
\* letter - 'a', hourly when no minute digits follow and highrate with the
\* two digits as minute otherwise; the day of the year of start_time is the
\* 3 digits at positions 5-7.
C2_ShortNameRecord ==
    (Returned /\ SpecShortGrammar(filename)) =>
        LET s == filename
            letter == UpperChar(s[ShortDot(s) + 3])
        IN  /\ rec.marker_name = StrUpper(SubSeq(s, 1, 4))
            /\ rec.data_type = (IF letter \in {"G", "N"} THEN <<"N">>
                                ELSE IF letter \in {"D", "O"} THEN <<"O">>
                                ELSE <<"M">>)
            /\ s[8] \in DigitSet =>
                  /\ rec.file_type = "daily"
                  /\ rec.start_time.hour = 0 /\ rec.start_time.minute = 0
            /\ s[8] \notin DigitSet =>
                  /\ rec.start_time.hour = IndexIn(UpperChar(s[8]), UpperAlpha) - 1
                  /\ ShortDot(s) = 9 => rec.file_type = "hourly"
                  /\ ShortDot(s) = 11 =>
                        /\ rec.file_type = "highrate"
                        /\ rec.start_time.minute = IntOf(SubSeq(s, 9, 10))
            /\ rec.start_time.yday = IntOf(SubSeq(s, 5, 7))

\* The short name of day 366 of 2015 has been classified, and a record returned.
C2_Day366Classified ==
    /\ Returned
    /\ filename = <<"b","u","l","a","3","6","6","0",".","1","5","d">>
    /\ rec.start_time.year = 2016 /\ rec.start_time.yday = 1

\* C3: for every string that matches neither the long nor the short grammar
\* the call raises InvalidFilename, its message the fixed text followed by
\* the string as the function holds it (upper-cased), and no record, not
\* even a partial one, is returned.
C3_NoMatchInvalidFilename ==
    (Classified /\ ~SpecLongGrammar(filename) /\ ~SpecShortGrammar(filename)) =>
        /\ exc.kind = "InvalidFilename"
        /\ exc.arg = InvalidFilenameText \o StrUpper(filename)
        /\ rec = NoRec

\* not_a_rinex_name.txt has been rejected.
C3_TextNameRejected ==
    /\ Classified
    /\ filename = <<"n","o","t","_","a","_","r","i","n","e","x","_","n","a","m","e",".","t","x","t">>
    /\ ~SpecLongGrammar(filename) /\ ~SpecShortGrammar(filename)
    /\ exc.kind = "InvalidFilename"

\* C4: the call fails only when the name matches neither pattern: for every
\* name that matches the long or the short pattern, whatever its digits, a
\* complete record is returned, and the only exception ever raised is
\* InvalidFilename.
C4_OnlyInvalidFilename ==
    Classified =>
        /\ exc.kind \in {"none", "InvalidFilename"}
        /\ (\/ rinex_longname_pattern(StrUpper(filename))
            \/ rinex_shortname_pattern(StrUpper(filename))) =>
                /\ exc.kind = "none"
                /\ rec.marker_name # NoText /\ rec.data_type # NoText
                /\ rec.file_type # "" /\ rec.start_time # NoTime

\* A name of the long pattern with day 000 has raised ValueError.
C4_Day000ValueError ==
    /\ Classified
    /\ filename = <<"A","L","I","C","0","0","A","U","S","_","R","_","2","0","1","6","0","0","0","0","0","0","0","_","0","1","D","_","M","O",".","r","n","x">>
    /\ rinex_longname_pattern(StrUpper(filename))
    /\ exc.kind = "ValueError"

\* C5 as stated: the names not rejected with InvalidFilename are exactly the
\* strings that match the long or the short grammar of the specification, a
\* long name with any letter A-Z before the data-type letter and any letter
\* A-Z at the head of the extension included.
C5_AcceptsSpecGrammar ==
    Classified =>
        (exc.kind # "InvalidFilename"
            <=> (SpecLongGrammar(filename) \/ SpecShortGrammar(filename)))

\* C5 as amended: the names not rejected with InvalidFilename are exactly
\* the strings that match the short grammar, or the long grammar with the
\* letter before the data-type letter one of M, E, G, J, R and the letter at
\* the head of the extension one of C, R.
C5_AcceptsCodeGrammar ==
    Classified =>
        (exc.kind # "InvalidFilename"
            <=> (\/ GrammarLong(filename, {"M", "E", "G", "J", "R"}, {"C", "R"})
                 \/ SpecShortGrammar(filename)))

\* A long name of the specification's grammar whose letter before the
\* data-type letter is C has been rejected, and one with J accepted.
C5_SystemLetterCRejected ==
    /\ Classified
    /\ SpecLongGrammar(filename)
    /\ UpperChar(filename[LongDot(filename) - 2]) = "C"
    /\ UpperChar(filename[LongDot(filename) + 1]) = "R"
    /\ exc.kind = "InvalidFilename"

(***************************************************************************)
(* Header text: the string methods and the parsec parsers the header       *)
(* classes use.                                                            *)
(***************************************************************************)
\* The width of the field text of a header line; the label follows it.
FieldWidth == 60

END_OF_HEADER == <<"E","N","D"," ","O","F"," ","H","E","A","D","E","R">>

\* The first position at which needle occurs in s, 0 when it does not.
Find(s, needle) ==
    Least({i \in 1..(Len(s) - Len(needle) + 1) :
              \A k \in 1..Len(needle) : s[i + k - 1] = needle[k]})

\* str.partition(sep): the text before the first sep, sep, the text after
\* it; the whole text and two empty strings when sep does not occur.
PartitionAt(s, sep, p) ==
    IF p = 0 THEN <<s, <<>>, <<>>>>
    ELSE <<SubSeq(s, 1, p - 1), sep, SubSeq(s, p + Len(sep), Len(s))>>

Partition(s, sep) == PartitionAt(s, sep, Find(s, sep))

\* str.splitlines() of a text whose only line boundary is "\n": a newline
\* that ends the text opens no further line.
SplitLines(s) ==
    IF s = <<>> THEN <<>>
    ELSE Split(IF s[Len(s)] = "\n" THEN SubSeq(s, 1, Len(s) - 1) ELSE s, "\n")

IsSpace(c) == c \in {" ", "\n"}

\* The words of a.split(), joined by single spaces: a character is kept
\* when it is no whitespace, or when it is the first whitespace after a
\* word that another word follows; it is then a space.
RECURSIVE JoinWords(_, _, _)
JoinWords(s, i, last) ==
    IF i > last THEN <<>>
    ELSE IF ~IsSpace(s[i]) THEN <<s[i]>> \o JoinWords(s, i + 1, last)
    ELSE IF i > 1 /\ ~IsSpace(s[i - 1]) /\ \E k \in (i + 1)..last : ~IsSpace(s[k])
    THEN <<" ">> \o JoinWords(s, i + 1, last)
    ELSE JoinWords(s, i + 1, last)

\* trim_whitespace = lambda a: ' '.join(a.split())
trim_whitespace(a) == JoinWords(a, 1, Len(a))

\* str.strip()
StripTo(a, words) == IF words = {} THEN <<>> ELSE SubSeq(a, Least(words), Greatest(words))

Strip(a) == StripTo(a, {i \in 1..Len(a) : ~IsSpace(a[i])})

(***************************************************************************)
(* float(text).  The value is kept as a decimal: neg, mant and exp10 stand *)
(* for (-1)^neg * mant * 10^exp10, with mant not divisible by 10.  A text  *)
(* float() refuses has ok = FALSE (ValueError).                            *)
(***************************************************************************)
NoFloat == [ok |-> FALSE, kind |-> "none", neg |-> FALSE, mant |-> 0, exp10 |-> 0]

AllDigits(s) == \A i \in 1..Len(s) : IsDigit(s[i])

RECURSIVE Normal(_, _, _)
Normal(neg, mant, exp10) ==
    IF mant = 0 THEN [ok |-> TRUE, kind |-> "num", neg |-> FALSE, mant |-> 0, exp10 |-> 0]
    ELSE IF mant % 10 = 0 THEN Normal(neg, mant \div 10, exp10 + 1)
    ELSE [ok |-> TRUE, kind |-> "num", neg |-> neg, mant |-> mant, exp10 |-> exp10]

\* An exponent: an optional sign and at least one digit.
ExponentOk(s) ==
    LET d == IF s # <<>> /\ s[1] \in {"+", "-"} THEN Tail(s) ELSE s
    IN  d # <<>> /\ AllDigits(d)

ExponentOf(s) ==
    IF s[1] = "-" THEN 0 - IntOf(Tail(s))
    ELSE IF s[1] = "+" THEN IntOf(Tail(s))
    ELSE IntOf(s)

\* The parts of a mantissa around its dots: digits, with at most one dot
\* among them and at least one digit.
MantissaOk(parts) ==
    /\ Len(parts) <= 2
    /\ \A k \in 1..Len(parts) : AllDigits(parts[k])
    /\ \E k \in 1..Len(parts) : parts[k] # <<>>

\* The number whose mantissa has the parts `parts` and whose exponent, when
\* has_exp, is the text x.
FloatOfParts(neg, parts, has_exp, x) ==
    IF MantissaOk(parts) /\ (~has_exp \/ ExponentOk(x))
    THEN Normal(neg, IntOf(parts[1] \o (IF Len(parts) = 2 THEN parts[2] ELSE <<>>)),
                (IF has_exp THEN ExponentOf(x) ELSE 0)
                    - (IF Len(parts) = 2 THEN Len(parts[2]) ELSE 0))
    ELSE NoFloat

\* low is the text without its sign, in lower case, and e the place of its
\* first "e" (0 when it has none).
FloatOfLower(neg, low, e) ==
    IF low \in {<<"i","n","f">>, <<"i","n","f","i","n","i","t","y">>}
    THEN [ok |-> TRUE, kind |-> "inf", neg |-> neg, mant |-> 0, exp10 |-> 0]
    ELSE IF low = <<"n","a","n">>
    THEN [ok |-> TRUE, kind |-> "nan", neg |-> FALSE, mant |-> 0, exp10 |-> 0]
    ELSE FloatOfParts(neg, Split(IF e = 0 THEN low ELSE SubSeq(low, 1, e - 1), "."),
                      e # 0, SubSeq(low, e + 1, Len(low)))

FloatOfUnsigned(neg, body) == FloatOfLower(neg, body, Find(body, <<"e">>))

FloatOfStripped(s) ==
    FloatOfUnsigned(s # <<>> /\ s[1] = "-",
                    StrLower(IF s # <<>> /\ s[1] \in {"+", "-"} THEN Tail(s) ELSE s))

float(text) == FloatOfStripped(Strip(text))

(***************************************************************************)
(* parsec.  n_ANY(n) is regex('(.){n}'): it takes the next n characters,   *)
(* none of them a newline, and fails (ParseError) when there are fewer.    *)
(* Parser.parse does not ask that the whole text be consumed.              *)
(***************************************************************************)
\* Whether n_ANY(n) matches text at the 0-based index i.
n_ANY_ok(text, i, n) ==
    /\ Len(text) >= i + n
    /\ \A k \in (i + 1)..(i + n) : text[k] # "\n"

\* The text n_ANY(n) returns at index i.
n_ANY(text, i, n) == Slice(text, i, i + n)

\* one_of(chars) at index i
one_of_ok(text, i, chars) == Len(text) > i /\ text[i + 1] \in chars

\* count(n_ANY(w).parsecmap(trim_whitespace), k) from index 0
TrimmedColumns(text, w, k) == [j \in 1..k |-> trim_whitespace(n_ANY(text, (j - 1) * w, w))]

\* count(n_ANY(w).parsecmap(float), k) from index 0
FloatColumns(text, w, k) == [j \in 1..k |-> float(n_ANY(text, (j - 1) * w, w))]

(***************************************************************************)
(* src/rinex_parser.py: RINEXHeader and its subclasses.  An operator gives *)
(* what a constructor step computes: exc is the exception it raises (kind  *)
(* "none" when it returns) and the other fields are the attributes it set. *)
(***************************************************************************)
L_VERSION == <<"R","I","N","E","X"," ","V","E","R","S","I","O","N"," ","/"," ","T","Y","P","E">>

L_MARKER_NAME == <<"M","A","R","K","E","R"," ","N","A","M","E">>

L_MARKER_NUMBER == <<"M","A","R","K","E","R"," ","N","U","M","B","E","R">>

L_REC == <<"R","E","C"," ","#"," ","/"," ","T","Y","P","E"," ","/"," ","V","E","R","S">>

L_ANT == <<"A","N","T"," ","#"," ","/"," ","T","Y","P","E">>

L_DELTA == <<"A","N","T","E","N","N","A",":"," ","D","E","L","T","A"," ","H","/","E","/","N">>

L_CRINEX == <<"C","R","I","N","E","X"," ","V","E","R","S"," ","/"," ","T","Y","P","E">>

L_SENSOR_MOD == <<"S","E","N","S","O","R"," ","M","O","D","/","T","Y","P","E","/","A","C","C">>

L_SENSOR_POS == <<"S","E","N","S","O","R"," ","P","O","S"," ","X","Y","Z","/","H">>

Exc(kind, arg) == [kind |-> kind, arg |-> arg]

\* What count(n_ANY(w).parsecmap(float), k) raises from column j on: the
\* first column that is not there is a ParseError, the first that is no
\* float a ValueError.
RECURSIVE FloatColumnsExc(_, _, _, _)
FloatColumnsExc(text, w, j, k) ==
    IF j > k THEN NoExc
    ELSE IF ~n_ANY_ok(text, (j - 1) * w, w) THEN Exc("ParseError", text)
    ELSE IF ~float(n_ANY(text, (j - 1) * w, w)).ok
    THEN Exc("ValueError", n_ANY(text, (j - 1) * w, w))
    ELSE FloatColumnsExc(text, w, j + 1, k)

\* The concatenation, in line order, of the field text of the lines from
\* the i-th on whose label is `label`: header_fields[label] += field.
RECURSIVE Accumulate(_, _, _, _)
Accumulate(fields, labels, label, i) ==
    IF i > Len(fields) THEN <<>>
    ELSE (IF labels[i] = label THEN fields[i] ELSE <<>>)
             \o Accumulate(fields, labels, label, i + 1)

\* header_fields, given the field and the label of every line
Collect(fields, labels) == [l \in Range(labels) |-> Accumulate(fields, labels, l, 1)]

\* field, label = line[:60], trim_whitespace(line[60:])
TrimmedFields(lines) ==
    Collect([i \in DOMAIN lines |-> Slice(lines[i], 0, FieldWidth)],
            [i \in DOMAIN lines |->
                trim_whitespace(Slice(lines[i], FieldWidth, Len(lines[i])))])

\* field, label = line[:60], line[60:]
UntrimmedFields(lines) ==
    Collect([i \in DOMAIN lines |-> Slice(lines[i], 0, FieldWidth)],
            [i \in DOMAIN lines |-> Slice(lines[i], FieldWidth, Len(lines[i]))])

\* for line in header.splitlines():
\*     field, label = line[:60], trim_whitespace(line[60:])
\*     header_fields[label] += field
HeaderFields(text) == TrimmedFields(SplitLines(text))

\* The lines of the header read without trimming the label.
HeaderFieldsUntrimmed(text) == UntrimmedFields(SplitLines(text))

\* joint(n_ANY(9).parsecmap(float), compose(n_ANY(11), one_of('MON')),
\*       compose(n_ANY(19), n_ANY(1))) : version, type, satellite
VersionTypeOf(text, version) ==
    IF ~n_ANY_ok(text, 0, 9) THEN [exc |-> Exc("ParseError", text)]
    ELSE IF ~version.ok THEN [exc |-> Exc("ValueError", n_ANY(text, 0, 9))]
    ELSE IF ~(n_ANY_ok(text, 9, 11) /\ one_of_ok(text, 20, {"M", "O", "N"}))
    THEN [exc |-> Exc("ParseError", text)]
    ELSE IF ~(n_ANY_ok(text, 21, 19) /\ n_ANY_ok(text, 40, 1))
    THEN [exc |-> Exc("ParseError", text)]
    ELSE [exc |-> NoExc, version |-> version, type |-> text[21], satellite |-> text[41]]

VersionType(text) == VersionTypeOf(text, float(n_ANY(text, 0, 9)))

\* header_fields[label] where the label is there
FieldOf(hf, label) == IF label \in DOMAIN hf THEN hf[label] ELSE <<>>

\* RINEXHeader.__init__, given header_fields and, when the version line is
\* there, what its parser gives
RINEXHeader_fields(hf, v) ==
    IF L_VERSION \notin DOMAIN hf THEN [exc |-> Exc("KeyError", L_VERSION)]
    ELSE IF v.exc.kind # "none" THEN [exc |-> v.exc]
    ELSE [exc |-> NoExc, header_fields |-> hf, version |-> v.version, type |-> v.type]

RINEXHeader_parse(hf) ==
    RINEXHeader_fields(hf, VersionType(FieldOf(hf, L_VERSION)))

\* RINEXHeader.__init__
RINEXHeader_init(text) == RINEXHeader_parse(HeaderFields(text))

\* RINEXHeader._getMarkerInfo
getMarkerInfo(hf) ==
    IF L_MARKER_NAME \notin DOMAIN hf THEN [exc |-> Exc("KeyError", L_MARKER_NAME)]
    ELSE IF ~n_ANY_ok(hf[L_MARKER_NAME], 0, 60)
    THEN [exc |-> Exc("ParseError", hf[L_MARKER_NAME])]
    ELSE IF L_MARKER_NUMBER \notin DOMAIN hf THEN [exc |-> Exc("KeyError", L_MARKER_NUMBER)]
    ELSE IF ~n_ANY_ok(hf[L_MARKER_NUMBER], 0, 20)
    THEN [exc |-> Exc("ParseError", hf[L_MARKER_NUMBER])]
    ELSE [exc |-> NoExc,
          marker_name |-> trim_whitespace(n_ANY(hf[L_MARKER_NAME], 0, 60)),
          marker_number |-> trim_whitespace(n_ANY(hf[L_MARKER_NUMBER], 0, 20))]

\* Lines 212-214 without the handler of KeyError of lines 216-217: only the
\* label sets the attribute.
CompressedNoDefault(hf) ==
    IF L_CRINEX \in DOMAIN hf /\ hf[L_CRINEX] # <<>> THEN "True" ELSE "unset"

\* if self.header_fields['CRINEX VERS / TYPE']: self.compressed = True
\* except KeyError: self.compressed = False
\* A label that is there with an empty text leaves the attribute unset.
Compressed(hf) ==
    IF L_CRINEX \notin DOMAIN hf THEN "False"
    ELSE IF hf[L_CRINEX] # <<>> THEN "True"
    ELSE "unset"

\* The body of ObservationalHeader.__init__ after _getMarkerInfo: r, a and d
\* are the columns of the receiver, antenna and delta lines, dexc what the
\* parser of the delta line raises.
ObservationalValues(hf, r, a, d, dexc) ==
    IF L_REC \notin DOMAIN hf THEN [exc |-> Exc("KeyError", L_REC)]
    ELSE IF ~n_ANY_ok(hf[L_REC], 0, 60) THEN [exc |-> Exc("ParseError", hf[L_REC])]
    ELSE IF L_ANT \notin DOMAIN hf THEN [exc |-> Exc("KeyError", L_ANT)]
    ELSE IF ~n_ANY_ok(hf[L_ANT], 0, 40) THEN [exc |-> Exc("ParseError", hf[L_ANT])]
    ELSE IF L_DELTA \notin DOMAIN hf THEN [exc |-> Exc("KeyError", L_DELTA)]
    ELSE IF dexc.kind # "none" THEN [exc |-> dexc]
    ELSE [exc |-> NoExc,
          receiver_number |-> r[1], receiver_type |-> r[2],
          antenna_number |-> a[1], antenna_type |-> a[2],
          antenna_height |-> d[1], antenna_east |-> d[2], antenna_north |-> d[3],
          compressed |-> Compressed(hf)]

ObservationalFields(hf) ==
    ObservationalValues(hf, TrimmedColumns(FieldOf(hf, L_REC), 20, 3),
                        TrimmedColumns(FieldOf(hf, L_ANT), 20, 2),
                        FloatColumns(FieldOf(hf, L_DELTA), 14, 3),
                        FloatColumnsExc(FieldOf(hf, L_DELTA), 14, 1, 3))

\* The body of MeteorologicalHeader.__init__ after _getMarkerInfo reads the
\* name header_fields, which is bound nowhere: NameError.
MeteorologicalFields(hf) == [exc |-> Exc("NameError", <<"h","e","a","d","e","r","_","f","i","e","l","d","s">>)]

\* The table with the classes of M and O in each other's place.
HeaderClassSwapped(data_type) ==
    IF data_type = <<"N">> THEN "NavigationalHeader"
    ELSE IF data_type = <<"M">> THEN "ObservationalHeader"
    ELSE IF data_type = <<"O">> THEN "MeteorologicalHeader"
    ELSE "KeyError"

\* parser = {'N': NavigationalHeader, 'M': MeteorologicalHeader,
\*           'O': ObservationalHeader}
HeaderClass(data_type) ==
    IF data_type = <<"N">> THEN "NavigationalHeader"
    ELSE IF data_type = <<"M">> THEN "MeteorologicalHeader"
    ELSE IF data_type = <<"O">> THEN "ObservationalHeader"
    ELSE "KeyError"

(***************************************************************************)
(* RINEX.__init__(data, filename), with data the contents of a file (no    *)
(* path of an existing file), step by step.                                *)
(***************************************************************************)
Raised(e) ==
    /\ pc' = "raised"
    /\ exc' = e
    /\ hdr' = NoHdr

\* lines 27-42: the filename must be given, and is classified
RINEX_init_filename ==
    /\ pc = "idle"
    /\ IF filename = <<>>
       THEN Raised(Exc("ValueError", NoText)) /\ UNCHANGED rec
       ELSE \E r \in {parseRINEXFilename(filename)} :
                IF r.kind = "record"
                THEN pc' = "named" /\ rec' = RecOf(r) /\ UNCHANGED <<exc, hdr>>
                ELSE Raised(ExcOf(r)) /\ UNCHANGED rec
    /\ entry' = "RINEX"
    /\ UNCHANGED <<filename, data, header, observations>>

\* lines 44-47: header, eoh, observations = data.partition('END OF HEADER')
RINEX_init_partition ==
    /\ pc = "named"
    /\ \E parts \in {Partition(data, END_OF_HEADER)} :
           IF parts[2] = <<>>
           THEN Raised(Exc("InvalidHeader", NoText)) /\ UNCHANGED <<header, observations>>
           ELSE /\ pc' = "split"
                /\ header' = parts[1] \o parts[2]
                /\ observations' = parts[3]
                /\ UNCHANGED <<exc, hdr>>
    /\ UNCHANGED <<filename, data, entry, rec>>

\* lines 49-54 and RINEXHeader.__init__: the class is looked up by the data
\* type of the filename and its constructor starts with the base class's.
RINEX_init_header ==
    /\ pc = "split"
    /\ \E class \in {HeaderClass(rec.data_type)}, b \in {RINEXHeader_init(header)} :
           IF class = "KeyError" THEN Raised(Exc("KeyError", rec.data_type))
           ELSE IF b.exc.kind # "none" THEN Raised(b.exc)
           ELSE /\ hdr' = [class |-> class, header_fields |-> b.header_fields,
                           version |-> b.version, type |-> b.type]
                /\ pc' = IF class = "NavigationalHeader" THEN "done" ELSE "base"
                /\ UNCHANGED exc
    /\ UNCHANGED <<filename, data, entry, rec, header, observations>>

\* self._getMarkerInfo() of ObservationalHeader and MeteorologicalHeader
RINEXHeader_getMarkerInfo ==
    /\ pc = "base"
    /\ \E m \in {getMarkerInfo(hdr.header_fields)} :
           IF m.exc.kind # "none" THEN Raised(m.exc)
           ELSE /\ hdr' = [class |-> hdr.class, header_fields |-> hdr.header_fields,
                           version |-> hdr.version, type |-> hdr.type,
                           marker_name |-> m.marker_name,
                           marker_number |-> m.marker_number]
                /\ pc' = "marker"
                /\ UNCHANGED exc
    /\ UNCHANGED <<filename, data, entry, rec, header, observations>>

\* ObservationalHeader.__init__, lines 200-217
ObservationalHeader_init ==
    /\ pc = "marker"
    /\ hdr.class = "ObservationalHeader"
    /\ \E o \in {ObservationalFields(hdr.header_fields)} :
           IF o.exc.kind # "none" THEN Raised(o.exc)
           ELSE /\ hdr' = [class |-> hdr.class, header_fields |-> hdr.header_fields,
                           version |-> hdr.version, type |-> hdr.type,
                           marker_name |-> hdr.marker_name,
                           marker_number |-> hdr.marker_number,
                           receiver_number |-> o.receiver_number,
                           receiver_type |-> o.receiver_type,
                           antenna_number |-> o.antenna_number,
                           antenna_type |-> o.antenna_type,
                           antenna_height |-> o.antenna_height,
                           antenna_east |-> o.antenna_east,
                           antenna_north |-> o.antenna_north,
                           compressed |-> o.compressed]
                /\ pc' = "done"
                /\ UNCHANGED exc
    /\ UNCHANGED <<filename, data, entry, rec, header, observations>>

\* MeteorologicalHeader.__init__, lines 225-229
MeteorologicalHeader_init ==
    /\ pc = "marker"
    /\ hdr.class = "MeteorologicalHeader"
    /\ Raised(MeteorologicalFields(hdr.header_fields).exc)
    /\ UNCHANGED <<filename, data, entry, rec, header, observations>>

(***************************************************************************)
(* src/src/rinex_header.py: the RINEXHeader that checks the shape of the   *)
(* header and parses every field that RINEX_HEADER_FIELD_PARSERS knows.    *)
(***************************************************************************)
L_PGM == <<"P","G","M"," ","/"," ","R","U","N"," ","B","Y"," ","/"," ","D","A","T","E">>

L_COMMENT == <<"C","O","M","M","E","N","T">>

L_SYS_OBS == <<"S","Y","S"," ","/"," ","#"," ","/"," ","O","B","S"," ","T","Y","P","E","S">>

\* The least and the greatest length of a header line before the last.
MinLineLen == 61

MaxLineLen == 80

\* re.match('^(.{61,80}\n)+.{60}END OF HEADER$', data): `.` is any
\* character but a newline, so the lines of the match are the lines of data.
ShapeOk(lines) ==
    /\ Len(lines) >= 2
    /\ \A i \in 1..(Len(lines) - 1) :
          Len(lines[i]) >= MinLineLen /\ Len(lines[i]) <= MaxLineLen
    /\ Len(lines[Len(lines)]) = FieldWidth + Len(END_OF_HEADER)
    /\ Slice(lines[Len(lines)], FieldWidth, MaxLineLen) = END_OF_HEADER

rinex_header_match(text) ==
    ShapeOk(Split(IF text # <<>> /\ text[Len(text)] = "\n"
                  THEN SubSeq(text, 1, Len(text) - 1) ELSE text, "\n"))

\* The keys of RINEX_HEADER_FIELD_PARSERS
RINEX_HEADER_FIELD_LABELS ==
    {L_VERSION, L_PGM, L_COMMENT, L_MARKER_NAME, L_MARKER_NUMBER, L_REC, L_ANT,
     L_DELTA, L_SENSOR_MOD, L_SYS_OBS}

\* many1(n_ANY(60)): the chunks of 60 characters, as many as there are
RECURSIVE Chunks(_, _, _)
Chunks(text, i, w) ==
    IF n_ANY_ok(text, i, w) THEN <<n_ANY(text, i, w)>> \o Chunks(text, i + w, w)
    ELSE <<>>

\* One group of 'SENSOR MOD/TYPE/ACC' at index i: 20 + 20 (+6) + 7 (+4) + 2 (+1)
SensorGroupOk(text, i) == n_ANY_ok(text, i, 60)

SensorGroup(text, i, acc) ==
    <<trim_whitespace(n_ANY(text, i, 20)), trim_whitespace(n_ANY(text, i + 20, 20)),
      acc, n_ANY(text, i + 57, 2)>>

\* many1 of the sensor groups: a group whose text is there is parsed, and a
\* float() that fails in it is a ValueError of the whole parse.
RECURSIVE SensorGroups(_, _)
SensorGroupsFrom(text, i, acc, rest) ==
    IF ~acc.ok THEN [exc |-> Exc("ValueError", n_ANY(text, i + 46, 7)), value |-> <<>>]
    ELSE IF rest.exc.kind # "none" THEN rest
    ELSE [exc |-> NoExc, value |-> <<SensorGroup(text, i, acc)>> \o rest.value]

SensorGroups(text, i) ==
    IF ~SensorGroupOk(text, i) THEN [exc |-> NoExc, value |-> <<>>]
    ELSE SensorGroupsFrom(text, i, float(n_ANY(text, i + 46, 7)), SensorGroups(text, i + 60))

\* spaces(): the index after the whitespace that starts at index i
RECURSIVE SkipSpaces(_, _)
SkipSpaces(text, i) ==
    IF i < Len(text) /\ IsSpace(text[i + 1]) THEN SkipSpaces(text, i + 1) ELSE i

\* n_I(3): regex('([0-9]){1,3}'), the number of digits it takes at index i
DigitsAt(text, i) ==
    IF ~(i < Len(text) /\ IsDigit(text[i + 1])) THEN 0
    ELSE IF ~(i + 1 < Len(text) /\ IsDigit(text[i + 2])) THEN 1
    ELSE IF ~(i + 2 < Len(text) /\ IsDigit(text[i + 3])) THEN 2
    ELSE 3

\* n_A3(n) = count(compose(spaces(), n_A(3)), n) at index i; j is the index
\* after the spaces
RECURSIVE n_A3(_, _, _)
n_A3_code(text, j, rest) ==
    [ok |-> rest.ok, index |-> rest.index, value |-> <<n_ANY(text, j, 3)>> \o rest.value]

n_A3_at(text, i, n, j) ==
    IF ~(Len(text) >= j + 3 /\ \A k \in (j + 1)..(j + 3) : IsAlnum(text[k]))
    THEN [ok |-> FALSE, index |-> i, value |-> <<>>]
    ELSE n_A3_code(text, j, n_A3(text, j + 3, n - 1))

n_A3(text, i, n) ==
    IF n = 0 THEN [ok |-> TRUE, index |-> i, value |-> <<>>]
    ELSE n_A3_at(text, i, n, SkipSpaces(text, i))

\* compose(spaces(), joint(one_of('GREJCIS'), compose(spaces(), bind(n_I(3), n_A3))))
\* j is the index of the system letter, k that of the number, d its digits
SysGroupCodes(text, i, j, codes) ==
    IF ~codes.ok THEN [ok |-> FALSE, index |-> i, value |-> <<>>]
    ELSE [ok |-> TRUE, index |-> codes.index, value |-> <<text[j + 1], codes.value>>]

SysGroupNumber(text, i, j, k, d) ==
    IF d = 0 THEN [ok |-> FALSE, index |-> i, value |-> <<>>]
    ELSE SysGroupCodes(text, i, j, n_A3(text, k + d, IntOf(n_ANY(text, k, d))))

SysGroupLetter(text, i, j, k) ==
    IF ~one_of_ok(text, j, {"G", "R", "E", "J", "C", "I", "S"})
    THEN [ok |-> FALSE, index |-> i, value |-> <<>>]
    ELSE SysGroupNumber(text, i, j, k, DigitsAt(text, k))

SysGroupAt(text, i, j) == SysGroupLetter(text, i, j, SkipSpaces(text, j + 1))

SysGroup(text, i) == SysGroupAt(text, i, SkipSpaces(text, i))

\* many1(...) of the groups: it ends at the first group that does not
\* parse, and fails when the first does not
RECURSIVE SysGroups(_, _)
SysGroupsFrom(text, g) ==
    IF g.ok THEN <<g.value>> \o SysGroups(text, g.index) ELSE <<>>

SysGroups(text, i) == SysGroupsFrom(text, SysGroup(text, i))

Parsed(value) == [exc |-> NoExc, value |-> value]

Failed(kind, arg) == [exc |-> Exc(kind, arg), value |-> <<>>]

\* RINEX_HEADER_FIELD_PARSERS[label].parse(text), given what the parsers of
\* the version line (v), of the float columns (d, dexc), of the sensor
\* groups (sensors) and of the system groups (systems) give
FieldParseOf(label, text, v, d, dexc, sensors, systems) ==
    CASE label = L_VERSION ->
            IF v.exc.kind # "none" THEN Failed(v.exc.kind, v.exc.arg)
            ELSE Parsed(<<v.version, v.type, v.satellite>>)
      [] label \in {L_PGM, L_REC, L_ANT} ->
            IF n_ANY_ok(text, 0, IF label = L_ANT THEN 40 ELSE 60)
            THEN Parsed(TrimmedColumns(text, 20, IF label = L_ANT THEN 2 ELSE 3))
            ELSE Failed("ParseError", text)
      [] label = L_COMMENT ->
            IF n_ANY_ok(text, 0, 60) THEN Parsed(Chunks(text, 0, 60))
            ELSE Failed("ParseError", text)
      [] label \in {L_MARKER_NAME, L_MARKER_NUMBER} ->
            IF n_ANY_ok(text, 0, IF label = L_MARKER_NAME THEN 60 ELSE 20)
            THEN Parsed(trim_whitespace(n_ANY(text, 0, IF label = L_MARKER_NAME THEN 60 ELSE 20)))
            ELSE Failed("ParseError", text)
      [] label = L_DELTA ->
            IF dexc.kind # "none" THEN [exc |-> dexc, value |-> <<>>] ELSE Parsed(d)
      [] label = L_SENSOR_MOD ->
            IF ~SensorGroupOk(text, 0) THEN Failed("ParseError", text) ELSE sensors
      [] label = L_SYS_OBS ->
            IF systems = <<>> THEN Failed("ParseError", text) ELSE Parsed(systems)

FieldParse(label, text) ==
    FieldParseOf(label, text,
                 IF label = L_VERSION THEN VersionType(text) ELSE [exc |-> NoExc],
                 IF label = L_DELTA THEN FloatColumns(text, 14, 3) ELSE <<>>,
                 IF label = L_DELTA THEN FloatColumnsExc(text, 14, 1, 3) ELSE NoExc,
                 IF label = L_SENSOR_MOD THEN SensorGroups(text, 0) ELSE Parsed(<<>>),
                 IF label = L_SYS_OBS THEN SysGroups(text, 0) ELSE <<>>)

\* _parseHeader without its `except KeyError`: a label that is no key of
\* RINEX_HEADER_FIELD_PARSERS raises.
ParseOutcomeUncaught(hf, r) ==
    [failing |-> {r[l].exc : l \in {k \in DOMAIN r : r[k].exc.kind # "none"}}
                     \cup {Exc("KeyError", l) : l \in DOMAIN hf \ RINEX_HEADER_FIELD_LABELS},
     pf |-> [l \in DOMAIN r |-> r[l].value],
     unknown |-> {}]

\* RINEXHeader._parseHeader: the fields by untrimmed label, each known label
\* parsed (r), each other label printed as 'field not in schema'.  The dict
\* is walked in no fixed order: when several fields fail, any of them may
\* be the one that raises.
ParseOutcome(hf, r) ==
    [failing |-> {r[l].exc : l \in {k \in DOMAIN r : r[k].exc.kind # "none"}},
     pf |-> [l \in DOMAIN r |-> r[l].value],
     unknown |-> DOMAIN hf \ RINEX_HEADER_FIELD_LABELS]

ParseFields(hf) ==
    ParseOutcome(hf, [l \in DOMAIN hf \cap RINEX_HEADER_FIELD_LABELS |-> FieldParse(l, hf[l])])

rinex_header_parseHeader(text) == ParseFields(HeaderFieldsUntrimmed(text))

\* RINEXHeader(data) of src/src/rinex_header.py
rinex_header_RINEXHeader ==
    /\ pc = "idle"
    /\ IF ~rinex_header_match(data)
       THEN Raised(Exc("InvalidHeader", NoText)) /\ UNCHANGED header
       ELSE \E p \in {rinex_header_parseHeader(data)} :
                /\ header' = data
                /\ IF p.failing # {}
                   THEN \E e \in p.failing : Raised(e)
                   ELSE /\ hdr' = [class |-> "RINEXHeader", pf |-> p.pf, unknown |-> p.unknown]
                        /\ pc' = "parsed"
                        /\ UNCHANGED exc
    /\ entry' = "RINEXHeader"
    /\ UNCHANGED <<filename, data, rec, observations>>

(***************************************************************************)
(* The files given to the constructors: for each record type a header with *)
(* the lines that type needs, then the same with one line left out, the    *)
(* labels padded to column 80, or one field malformed; with and without    *)
(* the terminator line; and with up to MaxExtra further lines set between  *)
(* the others.                                                             *)
(***************************************************************************)
MaxExtra == 2

Spaces(n) == [i \in 1..n |-> " "]

Pad(s, n) == IF Len(s) >= n THEN s ELSE s \o Spaces(n - Len(s))

HLine(field, label) == Pad(field, FieldWidth) \o label

RECURSIVE JoinLines(_)
JoinLines(lines) ==
    IF lines = <<>> THEN <<>>
    ELSE IF Len(lines) = 1 THEN lines[1]
    ELSE lines[1] \o <<"\n">> \o JoinLines(Tail(lines))

VersionLine(ver, letter) ==
    HLine(Pad(ver, 20) \o <<letter>> \o Pad(<<"D","A","T","A">>, 19) \o <<"M">>, L_VERSION)

GoodVersion == <<" "," "," "," "," ","3",".","0","2">>

GoodDelta == Pad(<<" "," "," "," "," "," "," "," ","0",".","0","0","1","5">>, 14) \o Pad(<<" "," "," "," "," "," "," "," ","0",".","0","0","0","0">>, 14) \o Pad(<<" "," "," "," "," "," "," ","-","0",".","0","0","2","0">>, 14)

BaseLines(kind, ver, letter, delta) ==
    IF kind = "O" THEN
        <<VersionLine(ver, letter),
          HLine(<<"A","L","I","C">>, L_MARKER_NAME),
          HLine(<<"5","0","1","3","7","M","0","0","1">>, L_MARKER_NUMBER),
          HLine(Pad(<<"1","2","3","4","5">>, 20) \o Pad(<<"T","R","I","M","B","L","E"," "," ","N","E","T","R","9">>, 20) \o <<"5",".","0","1">>, L_REC),
          HLine(Pad(<<"6","7","8">>, 20) \o <<"L","E","I","A","R","2","5",".","R","3"," "," ","N","O","N","E">>, L_ANT),
          HLine(delta, L_DELTA)>>
    ELSE IF kind = "M" THEN
        <<VersionLine(ver, letter),
          HLine(<<"A","L","I","C">>, L_MARKER_NAME),
          HLine(<<"5","0","1","3","7","M","0","0","1">>, L_MARKER_NUMBER),
          HLine(Pad(<<"P","A","R","O","S","C","I","E","N","T","I","F","I","C">>, 20) \o Pad(<<"7","4","0","-","1","6","B">>, 20) \o Spaces(6) \o <<" "," "," "," ","0",".","2">>
                    \o Spaces(4) \o <<"P","R">>, L_SENSOR_MOD),
          HLine(Spaces(42) \o <<" "," "," "," "," ","1","2","3","4",".","5","6","7","8">> \o <<" ">> \o <<"P","R">>, L_SENSOR_POS)>>
    ELSE <<VersionLine(ver, letter)>>

GoodLines(kind) == BaseLines(kind, GoodVersion, kind, GoodDelta)

Omit(lines, i) == SubSeq(lines, 1, i - 1) \o SubSeq(lines, i + 1, Len(lines))

PadLabels(lines) == [i \in DOMAIN lines |-> Pad(lines[i], MaxLineLen)]

Variants(kind) ==
    {GoodLines(kind), PadLabels(GoodLines(kind))}
        \cup {Omit(GoodLines(kind), i) : i \in DOMAIN GoodLines(kind)}
        \cup {BaseLines(kind, <<" "," "," "," "," ","3",".","0","x">>, kind, GoodDelta),
              BaseLines(kind, GoodVersion, "X", GoodDelta),
              BaseLines(kind, GoodVersion, IF kind = "N" THEN "O" ELSE "N", GoodDelta),
              BaseLines(kind, GoodVersion, kind, Pad(<<" "," "," "," "," "," "," "," ","0",".","0","0","1","5">>, 14) \o Pad(<<" "," "," "," "," "," "," "," ","0",".","0","0","a","0">>, 14) \o Pad(<<" "," "," "," "," "," "," ","-","0",".","0","0","2","0">>, 14))}

TerminatorLine == HLine(<<>>, END_OF_HEADER)

Terminators == {<<TerminatorLine>>, <<END_OF_HEADER>>, <<>>}

Bodies == {<<>>, <<"\n",">"," ","1","6">>}

Kinds == {"O", "N", "M"}

VariedFiles ==
    {JoinLines(v \o term) \o body :
        v \in UNION {Variants(k) : k \in Kinds}, term \in Terminators, body \in Bodies}

ExtraLines ==
    {HLine(<<"v","e","n","d","o","r"," ","d","a","t","a">>, <<"V","E","N","D","O","R"," ","E","X","T">>),
     HLine(<<"f","i","r","s","t"," ","c","o","m","m","e","n","t">>, L_COMMENT),
     HLine(<<"s","e","e"," ","E","N","D"," ","O","F"," ","H","E","A","D","E","R"," ","b","e","l","o","w">>, L_COMMENT),
     <<"s","h","o","r","t">>,
     Pad(HLine(<<"l","o","n","g">>, L_COMMENT), MaxLineLen + 1),
     HLine(<<"3",".","0"," "," ","C","O","M","P","A","C","T"," ","R","I","N","E","X">>, L_CRINEX),
     Pad(HLine(<<"p","a","d","d","e","d"," ","c","o","m","m","e","n","t">>, L_COMMENT), MaxLineLen)}

ExtraSeqs == UNION {[1..n -> ExtraLines] : n \in 0..MaxExtra}

\* The extra lines set one by one after the first lines of the header.
RECURSIVE Interleave(_, _)
Interleave(lines, extras) ==
    IF extras = <<>> THEN lines
    ELSE IF lines = <<>> THEN extras
    ELSE <<Head(lines), Head(extras)>> \o Interleave(Tail(lines), Tail(extras))

ExtendedFiles ==
    {JoinLines(Interleave(GoodLines(k), xs) \o <<TerminatorLine>>) \o body :
        k \in Kinds, xs \in ExtraSeqs, body \in Bodies}

\* Lines of label SYS / # / OBS TYPES: a group of two codes, a group of
\* three codes with two of them on the line, a line that continues a group,
\* and a group whose two codes have no space between them.
SystemLines ==
    {HLine(<<"G"," "," "," "," ","2"," ","C","1","C"," ","L","1","C">>, L_SYS_OBS),
     HLine(<<"R"," "," "," "," ","3"," ","C","1","C"," ","L","1","C">>, L_SYS_OBS),
     HLine(<<" "," "," "," "," "," "," ","D","1","C">>, L_SYS_OBS),
     HLine(<<"E"," "," "," "," ","2"," ","C","1","C","L","1","C">>, L_SYS_OBS)}

SystemFiles ==
    {JoinLines(Interleave(GoodLines("O"), xs) \o <<TerminatorLine>>) :
        xs \in UNION {[1..n -> SystemLines] : n \in 0..MaxExtra}}

F_OBS == <<"b","u","l","a","1","2","8","0",".","1","6","d">>

F_NAV == <<"a","l","b","y","0","2","8","g",".","1","6","n">>

F_MET == <<"A","L","I","C","0","0","A","U","S","_","R","_","2","0","1","6","1","2","8","0","0","0","0","_","0","1","D","_","3","0","S","_","M","M",".","r","n","x">>

FileNames == {F_OBS, F_NAV, F_MET, <<"n","o","t","_","a","_","r","i","n","e","x","_","n","a","m","e",".","t","x","t">>, <<"a","l","b","y","1","2","8","0",".","1","6","m","\n">>, <<>>}

Init ==
    /\ \/ filename \in FileNames /\ data \in VariedFiles
       \/ filename \in {F_OBS, F_NAV, F_MET} /\ data \in ExtendedFiles \cup SystemFiles
    /\ entry = "none"
    /\ pc = "idle"
    /\ exc = NoExc
    /\ rec = NoRec
    /\ header = NoText
    /\ observations = NoText
    /\ hdr = NoHdr

Next ==
    \/ CallParseRINEXFilename
    \/ RINEX_init_filename
    \/ RINEX_init_partition
    \/ RINEX_init_header
    \/ RINEXHeader_getMarkerInfo
    \/ ObservationalHeader_init
    \/ MeteorologicalHeader_init
    \/ rinex_header_RINEXHeader

Spec == Init /\ [][Next]_vars

(***************************************************************************)
(* Header claims.                                                          *)
(***************************************************************************)
ClassOfType(t) ==
    IF t = <<"O">> THEN "ObservationalHeader"
    ELSE IF t = <<"N">> THEN "NavigationalHeader"
    ELSE IF t = <<"M">> THEN "MeteorologicalHeader"
    ELSE "none"

\* The RINEX constructor has selected a header class and decoded the
\* version line with it.
HasClass == entry = "RINEX" /\ pc \in {"base", "marker", "done"}

\* The text of the header is being, or has been, decoded.
Decoding == header # NoText /\ pc # "split"

BaseAttributes == {"class", "header_fields", "version", "type"}

ObservationalAttributes ==
    BaseAttributes \cup {"marker_name", "marker_number", "receiver_number",
                         "receiver_type", "antenna_number", "antenna_type",
                         "antenna_height", "antenna_east", "antenna_north",
                         "compressed"}

RequiredLabels(class) ==
    IF class = "ObservationalHeader"
    THEN {L_MARKER_NAME, L_MARKER_NUMBER, L_REC, L_ANT, L_DELTA}
    ELSE IF class = "MeteorologicalHeader"
    THEN {L_MARKER_NAME, L_MARKER_NUMBER, L_SENSOR_MOD, L_SENSOR_POS}
    ELSE {}

\* The RINEX VERSION / TYPE field of the fields hf decodes, and declares t.
Declares(hf, t) ==
    /\ L_VERSION \in DOMAIN hf
    /\ \A v \in {VersionType(hf[L_VERSION])} : v.exc.kind = "none" /\ <<v.type>> = t

\* C7: when the RINEX VERSION / TYPE field decodes and declares the type
\* the file has, and the header text lacks a label that this type requires,
\* the constructor fails with RINEXHeaderFieldError naming a missing label
\* and no header object is produced.
C7_MissingLabelFieldError ==
    (entry = "RINEX" /\ pc \in {"done", "raised"} /\ header # NoText) =>
        \A hf \in {HeaderFields(header)} :
            (Declares(hf, rec.data_type)
                /\ RequiredLabels(ClassOfType(rec.data_type)) \ DOMAIN hf # {}) =>
                    /\ pc = "raised"
                    /\ exc.kind = "RINEXHeaderFieldError"
                    /\ exc.arg \in RequiredLabels(ClassOfType(rec.data_type)) \ DOMAIN hf
                    /\ hdr = NoHdr

\* The constructor has raised KeyError for an observation header that has
\* no MARKER NAME line.
C7_MissingMarkerNameKeyError ==
    /\ entry = "RINEX" /\ pc = "raised"
    /\ rec.data_type = <<"O">>
    /\ Declares(HeaderFields(header), <<"O">>)
    /\ exc = Exc("KeyError", L_MARKER_NAME)

\* C8: when the text of a label that has a parser violates its grammar,
\* decoding fails with RINEXHeaderFieldError; once the header text is being
\* decoded no failure surfaces as a ParseError or a plain ValueError.
C8_GrammarFailureFieldError ==
    /\ (entry = "RINEXHeader" /\ Decoding) =>
          \A p \in {rinex_header_parseHeader(header)} :
              p.failing # {} => pc = "raised" /\ exc.kind = "RINEXHeaderFieldError"
    /\ (pc = "raised" /\ Decoding) => exc.kind \notin {"ParseError", "ValueError"}

\* The constructor has raised ValueError for an ANTENNA: DELTA H/E/N field
\* with a column that is no number.
C8_DeltaValueError ==
    /\ entry = "RINEX" /\ pc = "raised" /\ Decoding
    /\ rec.data_type = <<"O">>
    /\ L_DELTA \in DOMAIN HeaderFields(header)
    /\ ~float(n_ANY(HeaderFields(header)[L_DELTA], 14, 14)).ok
    /\ exc.kind = "ValueError"

(***************************************************************************)
(* C9 compares a header with the header that lacks its lines of unknown    *)
(* label.                                                                  *)
(***************************************************************************)
\* The labels the header classes of rinex_parser.py read.
ClassLabels ==
    {L_VERSION, L_MARKER_NAME, L_MARKER_NUMBER, L_REC, L_ANT, L_DELTA, L_CRINEX,
     L_SENSOR_MOD, L_SENSOR_POS}

LabelOf(line, trim) ==
    IF trim THEN trim_whitespace(Slice(line, FieldWidth, Len(line)))
    ELSE Slice(line, FieldWidth, Len(line))

RECURSIVE KeptLines(_, _, _)
KeptLines(lines, keep, i) ==
    IF i > Len(lines) THEN <<>>
    ELSE (IF i \in keep THEN <<lines[i]>> ELSE <<>>) \o KeptLines(lines, keep, i + 1)

UnknownLines(lines, known, trim) ==
    {i \in 1..(Len(lines) - 1) : LabelOf(lines[i], trim) \notin known}

\* The text without its lines of unknown label, the last line kept.
WithoutUnknownLines(lines, known, trim) ==
    JoinLines(KeptLines(lines, DOMAIN lines \ UnknownLines(lines, known, trim), 1))

WithoutUnknown(text, known, trim) == WithoutUnknownLines(SplitLines(text), known, trim)

\* What the constructor of class gives: b, m and o are what the base
\* constructor, _getMarkerInfo and the body of ObservationalHeader give.
ConstructFrom(class, b, m, o) ==
    IF b.exc.kind # "none" THEN [exc |-> b.exc]
    ELSE IF class = "NavigationalHeader"
    THEN [exc |-> NoExc, version |-> b.version, type |-> b.type]
    ELSE IF m.exc.kind # "none" THEN [exc |-> m.exc]
    ELSE IF class = "MeteorologicalHeader" THEN [exc |-> MeteorologicalFields(b.header_fields).exc]
    ELSE IF o.exc.kind # "none" THEN [exc |-> o.exc]
    ELSE [exc |-> NoExc, version |-> b.version, type |-> b.type,
          marker_name |-> m.marker_name, marker_number |-> m.marker_number,
          receiver_number |-> o.receiver_number, receiver_type |-> o.receiver_type,
          antenna_number |-> o.antenna_number, antenna_type |-> o.antenna_type,
          antenna_height |-> o.antenna_height, antenna_east |-> o.antenna_east,
          antenna_north |-> o.antenna_north, compressed |-> o.compressed]

Construct(class, hf) ==
    ConstructFrom(class, RINEXHeader_parse(hf), getMarkerInfo(hf), ObservationalFields(hf))

\* The attributes of the header object other than its class and fields.
Decoded(h) == [a \in DOMAIN h \ {"class", "header_fields"} |-> h[a]]

\* Every line of unknown label is in the fields fields under its label,
\* with its field text.
Recorded(lines, fields, known) ==
    \A i \in UnknownLines(lines, known, TRUE) :
        /\ LabelOf(lines[i], TRUE) \in DOMAIN fields
        /\ Find(fields[LabelOf(lines[i], TRUE)], Slice(lines[i], 0, FieldWidth)) # 0

VENDOR_EXT == <<"V","E","N","D","O","R"," ","E","X","T">>

WellShapedLines(lines) ==
    /\ Len(lines) >= 2
    /\ \A i \in 1..(Len(lines) - 1) : Len(lines[i]) \in 61..80
    /\ Len(lines[Len(lines)]) = 73
    /\ SubSeq(lines[Len(lines)], 61, 73) = END_OF_HEADER

WellShaped(text) == WellShapedLines(SplitLines(text))

\* C10: a header text that has not the shape is rejected with InvalidHeader
\* before any field is decoded: no text but one of the shape is ever
\* decoded, and RINEXHeader of rinex_header.py given another text raises
\* InvalidHeader.
C10_ShapeRejected ==
    /\ Decoding => WellShaped(header)
    /\ (entry = "RINEXHeader" /\ pc \in {"parsed", "raised"} /\ ~WellShaped(data)) =>
          pc = "raised" /\ exc.kind = "InvalidHeader"

\* The RINEX constructor has built an Observational header from a header
\* text with a line of 5 characters.
C10_ShortLineDecoded ==
    /\ entry = "RINEX" /\ pc = "done"
    /\ hdr.class = "ObservationalHeader"
    /\ \E i \in DOMAIN SplitLines(header) : Len(SplitLines(header)[i]) = 5
    /\ ~WellShaped(header)

(***************************************************************************)
(* C11: the header that RINEX.__init__ cuts out of the file data.          *)
(***************************************************************************)
\* The first line that carries END OF HEADER in its label columns, 0 when
\* no line does.
TerminatorIndex(lines) ==
    Least({i \in DOMAIN lines : LabelOf(lines[i], TRUE) = END_OF_HEADER})

\* The text of the lines up to the i-th, the i-th up to the end of the
\* words END OF HEADER in its label columns.
HeaderThrough(lines, i) ==
    JoinLines(SubSeq(lines, 1, i - 1)
                \o <<SubSeq(lines[i], 1,
                            FieldWidth + Find(Slice(lines[i], FieldWidth, Len(lines[i])),
                                              END_OF_HEADER) + Len(END_OF_HEADER) - 1)>>)

\* C11: when file data has a line with END OF HEADER in its label columns,
\* the header handed to header decoding is the text up to and including the
\* first such line, whatever the field text of the lines before it, and the
\* rest of the data is left as the data body.
C11_HeaderToTerminatorLine ==
    (entry = "RINEX" /\ header # NoText) =>
        \A lines \in {SplitLines(data)} :
            TerminatorIndex(lines) # 0 =>
                /\ header = HeaderThrough(lines, TerminatorIndex(lines))
                /\ header \o observations = data

\* The data of an observation file has a COMMENT line with the words END OF
\* HEADER in its field text before the terminator line: the header was cut
\* inside that line, and the constructor has raised KeyError for a label
\* that a later line carries.
C11_CutInsideComment ==
    /\ entry = "RINEX" /\ pc = "raised" /\ header # NoText
    /\ rec.data_type = <<"O">>
    /\ TerminatorIndex(SplitLines(data)) # 0
    /\ Len(SplitLines(header)) < TerminatorIndex(SplitLines(data))
    /\ LabelOf(SplitLines(data)[Len(SplitLines(header))], TRUE) = L_COMMENT
    /\ exc.kind = "KeyError"
    /\ exc.arg \in DOMAIN HeaderFields(data)

(***************************************************************************)
(* C12: the Meteorological header.                                         *)
(***************************************************************************)
\* The fields hf have the labels of a Meteorological header, each with a
\* text its decoding accepts.
WellFormedMeteorological(hf) ==
    /\ {L_VERSION, L_MARKER_NAME, L_MARKER_NUMBER, L_SENSOR_MOD, L_SENSOR_POS} \subseteq DOMAIN hf
    /\ VersionType(hf[L_VERSION]).exc.kind = "none"
    /\ n_ANY_ok(hf[L_MARKER_NAME], 0, 60)
    /\ n_ANY_ok(hf[L_MARKER_NUMBER], 0, 20)
    /\ float(Slice(hf[L_SENSOR_POS], 42, 56)).ok

\* C12: for a Meteorological file whose header has well-formed RINEX
\* VERSION / TYPE, MARKER NAME, MARKER NUMBER, SENSOR MOD/TYPE/ACC and
\* SENSOR POS XYZ/H fields the constructor succeeds; the header has the
\* trimmed marker name and number, as sensor type the trimmed first 40
\* columns of the sensor field and as sensor height the number in columns
\* 43-56 of SENSOR POS XYZ/H.
C12_MeteorologicalDecoded ==
    (entry = "RINEX" /\ pc \in {"done", "raised"} /\ header # NoText
        /\ rec.data_type = <<"M">>) =>
        \A hf \in {HeaderFields(header)} :
            WellFormedMeteorological(hf) =>
                /\ pc = "done"
                /\ hdr.marker_name = trim_whitespace(Slice(hf[L_MARKER_NAME], 0, 60))
                /\ hdr.marker_number = trim_whitespace(Slice(hf[L_MARKER_NUMBER], 0, 20))
                /\ hdr.sensor_type = trim_whitespace(Slice(hf[L_SENSOR_MOD], 0, 40))
                /\ hdr.sensor_height = float(Slice(hf[L_SENSOR_POS], 42, 56))

\* The constructor has raised NameError for a Meteorological file with a
\* well-formed header.
C12_MeteorologicalNameError ==
    /\ entry = "RINEX" /\ pc = "raised" /\ header # NoText
    /\ rec.data_type = <<"M">>
    /\ WellFormedMeteorological(HeaderFields(header))
    /\ exc.kind = "NameError"

(***************************************************************************)
(* C13: the mapping from labels to field text.                             *)
(***************************************************************************)
\* The label of a line: its characters after column 60, without the
\* whitespace around them.
StrippedLabel(line) == Strip(Slice(line, FieldWidth, Len(line)))

\* The first 60 columns of the lines from i on that carry the label, one
\* after the other.
RECURSIVE FieldTextOf(_, _, _)
FieldTextOf(lines, label, i) ==
    IF i > Len(lines) THEN <<>>
    ELSE (IF StrippedLabel(lines[i]) = label THEN Slice(lines[i], 0, FieldWidth) ELSE <<>>)
             \o FieldTextOf(lines, label, i + 1)

GroupedFields(lines) ==
    [label \in {StrippedLabel(lines[i]) : i \in DOMAIN lines} |-> FieldTextOf(lines, label, 1)]

\* C13: the mapping assembled from a header text has, for each label that
\* occurs in it (the characters after column 60, surrounding whitespace
\* trimmed), the first 60 columns, untrimmed and in file order, of exactly
\* the lines with that label; lines whose label columns differ only in
\* whitespace around the label are grouped, and a registered label padded
\* with spaces is decoded with the grammar of that label: what RINEXHeader
\* of rinex_header.py has parsed has, for every registered label of the
\* text, the value its grammar gives for the grouped text.
C13_LabelsTrimmedAndGrouped ==
    /\ HasClass => hdr.header_fields = GroupedFields(SplitLines(header))
    /\ (entry = "RINEXHeader" /\ pc = "parsed") =>
          \A f \in {GroupedFields(SplitLines(header))} :
              \A label \in DOMAIN f \cap RINEX_HEADER_FIELD_LABELS :
                  /\ label \in DOMAIN hdr.pf
                  /\ hdr.pf[label] = FieldParse(label, f[label]).value

\* RINEXHeader of rinex_header.py has parsed a header whose MARKER NAME
\* label is padded to column 80: the padded label is reported as not in the
\* schema and no marker name is decoded.
C13_PaddedLabelNotDecoded ==
    /\ entry = "RINEXHeader" /\ pc = "parsed"
    /\ Pad(L_MARKER_NAME, MaxLineLen - FieldWidth) \in hdr.unknown
    /\ L_MARKER_NAME \in DOMAIN GroupedFields(SplitLines(header))
    /\ L_MARKER_NAME \notin DOMAIN hdr.pf

(***************************************************************************)
(* C14: the COMMENT lines.                                                 *)
(***************************************************************************)
\* The lines of label COMMENT, in file order.
CommentLines(lines) ==
    KeptLines(lines, {i \in DOMAIN lines : StrippedLabel(lines[i]) = L_COMMENT}, 1)

\* C14: for a header of the right shape with k >= 1 COMMENT lines, adjacent
\* or not, the COMMENT value RINEXHeader of rinex_header.py decodes is a
\* sequence of exactly k elements, the i-th the untrimmed first 60 columns
\* of the i-th COMMENT line in file order.
C14_CommentPerLine ==
    (entry = "RINEXHeader" /\ pc = "parsed") =>
        \A c \in {CommentLines(SplitLines(header))} :
            c # <<>> =>
                /\ L_COMMENT \in DOMAIN hdr.pf
                /\ hdr.pf[L_COMMENT] = [i \in DOMAIN c |-> Slice(c[i], 0, FieldWidth)]

\* RINEXHeader of rinex_header.py has parsed a header with two COMMENT
\* lines, the label of one padded to column 80: the decoded COMMENT value
\* has one element.
C14_PaddedCommentLeftOut ==
    /\ entry = "RINEXHeader" /\ pc = "parsed"
    /\ Len(CommentLines(SplitLines(header))) = 2
    /\ Pad(L_COMMENT, MaxLineLen - FieldWidth) \in hdr.unknown
    /\ L_COMMENT \in DOMAIN hdr.pf
    /\ Len(hdr.pf[L_COMMENT]) = 1

(***************************************************************************)
(* C15: the groups of SYS / # / OBS TYPES.  What the claim describes is    *)
(* read off the words of the text: a system letter, a count of up to three *)
(* digits, then as many words of three alphanumeric characters.            *)
(***************************************************************************)
Words(text) ==
    IF trim_whitespace(text) = <<>> THEN <<>> ELSE Split(trim_whitespace(text), " ")

IsSystemWord(w) == w \in {<<"G">>, <<"R">>, <<"E">>, <<"J">>, <<"C">>, <<"I">>, <<"S">>}

IsCountWord(w) == Len(w) \in 1..3 /\ AllDigits(w)

IsCodeWord(w) == Len(w) = 3 /\ \A k \in 1..3 : IsAlnum(w[k])

\* The groups the words from the i-th on make, or ok = FALSE when they make
\* none: n is the count of the group at i.
RECURSIVE WordGroups(_, _)
WordGroupsWith(group, rest) ==
    IF rest.ok THEN [ok |-> TRUE, value |-> <<group>> \o rest.value]
    ELSE [ok |-> FALSE, value |-> <<>>]

WordGroupOf(w, i, n) ==
    IF i + 1 + n <= Len(w) /\ \A k \in (i + 2)..(i + 1 + n) : IsCodeWord(w[k])
    THEN WordGroupsWith(<<w[i][1], SubSeq(w, i + 2, i + 1 + n)>>, WordGroups(w, i + 2 + n))
    ELSE [ok |-> FALSE, value |-> <<>>]

WordGroups(w, i) ==
    IF i > Len(w) THEN [ok |-> TRUE, value |-> <<>>]
    ELSE IF i + 1 <= Len(w) /\ IsSystemWord(w[i]) /\ IsCountWord(w[i + 1])
    THEN WordGroupOf(w, i, IntOf(w[i + 1]))
    ELSE [ok |-> FALSE, value |-> <<>>]

\* C15: the text of the SYS / # / OBS TYPES lines of a header, one line
\* after the other, decodes to one group for each satellite system in file
\* order, with the system letter (one of G, R, E, J, C, I, S) and exactly
\* as many codes of three alphanumeric characters as the count of the group
\* says, on whichever lines of the label they stand; every code has
\* whitespace before it, and no group is decoded with fewer codes than its
\* count: a text that is not made of such groups is decoded to nothing.
C15_SystemGroups ==
    (entry = "RINEXHeader" /\ Decoding) =>
        \A f \in {HeaderFieldsUntrimmed(header)} :
            L_SYS_OBS \in DOMAIN f =>
                \A g \in {WordGroups(Words(f[L_SYS_OBS]), 1)} :
                    /\ pc = "parsed" => g.ok /\ hdr.pf[L_SYS_OBS] = g.value
                    /\ (pc = "raised" /\ exc = Exc("ParseError", f[L_SYS_OBS])) => ~g.ok

\* RINEXHeader of rinex_header.py has parsed a header whose SYS / # / OBS
\* TYPES line has two codes with no space between them: the group is
\* decoded with the two codes.
C15_CodesNotSeparated ==
    /\ entry = "RINEXHeader" /\ pc = "parsed"
    /\ L_SYS_OBS \in DOMAIN hdr.pf
    /\ Find(HeaderFieldsUntrimmed(header)[L_SYS_OBS], <<"C","1","C","L","1","C">>) # 0
    /\ hdr.pf[L_SYS_OBS] = << <<"E", << <<"C","1","C">>, <<"L","1","C">> >> >> >>

(***************************************************************************)
(* C16: the compressed flag.                                               *)
(***************************************************************************)
\* The header text has a line of label CRINEX VERS / TYPE.
HasCrinexLine(lines) == \E i \in DOMAIN lines : LabelOf(lines[i], TRUE) = L_CRINEX

\* C16: an Observational header that has been constructed has its
\* compressed flag set, to true when the header text has a line labelled
\* CRINEX VERS / TYPE and to false when it has none; and no construction
\* fails for want of that label.
C16_CompressedDefined ==
    /\ (entry = "RINEX" /\ pc = "done" /\ hdr.class = "ObservationalHeader") =>
          /\ "compressed" \in DOMAIN hdr
          /\ hdr.compressed \in {"True", "False"}
          /\ hdr.compressed = "True" <=> HasCrinexLine(SplitLines(header))
    /\ (entry = "RINEX" /\ pc = "raised") => exc # Exc("KeyError", L_CRINEX)

\* An Observational header has been constructed from a text with a CRINEX
\* VERS / TYPE line, and its flag is true.
C16_CompressedTrue ==
    /\ entry = "RINEX" /\ pc = "done" /\ hdr.class = "ObservationalHeader"
    /\ HasCrinexLine(SplitLines(header))
    /\ hdr.compressed = "True"

====
